---- MODULE Spec2Model ----
(***************************************************************************)
(* A model of the AI Minutes Agent (src/ai_minutes_agent.py): the regular  *)
(* expressions the agent matches with, its text heuristics (date           *)
(* extractor, section locator, content classifier, comment segmenter) and  *)
(* the aggregator that walks a folder of meeting minutes.                  *)
(*                                                                         *)
(* Strings are TLA+ strings; the character at position i of s is           *)
(* SubSeq(s, i, i).  Positions are 1-based, and a match is reported by the *)
(* position of its first character and the position after its last one.    *)
(***************************************************************************)
EXTENDS Integers, Sequences, FiniteSets, TLC

(***************************************************************************)
(* Python's re module, as far as the agent's patterns use it.  A pattern   *)
(* is a sequence of elements; Python matches by backtracking, so every     *)
(* element offers its possible ends in priority order and the first        *)
(* complete path is the match.                                             *)
(***************************************************************************)

None == "<None>"

Digits == {"0", "1", "2", "3", "4", "5", "6", "7", "8", "9"}

LowerLetters ==
    {"a", "b", "c", "d", "e", "f", "g", "h", "i", "j", "k", "l", "m",
     "n", "o", "p", "q", "r", "s", "t", "u", "v", "w", "x", "y", "z"}

UpperLetters ==
    {"A", "B", "C", "D", "E", "F", "G", "H", "I", "J", "K", "L", "M",
     "N", "O", "P", "Q", "R", "S", "T", "U", "V", "W", "X", "Y", "Z"}

Whitespace == {" ", "\n", "\t", "\r"}

LowerOf ==
    [c \in UpperLetters |->
        CASE c = "A" -> "a" [] c = "B" -> "b" [] c = "C" -> "c" [] c = "D" -> "d"
          [] c = "E" -> "e" [] c = "F" -> "f" [] c = "G" -> "g" [] c = "H" -> "h"
          [] c = "I" -> "i" [] c = "J" -> "j" [] c = "K" -> "k" [] c = "L" -> "l"
          [] c = "M" -> "m" [] c = "N" -> "n" [] c = "O" -> "o" [] c = "P" -> "p"
          [] c = "Q" -> "q" [] c = "R" -> "r" [] c = "S" -> "s" [] c = "T" -> "t"
          [] c = "U" -> "u" [] c = "V" -> "v" [] c = "W" -> "w" [] c = "X" -> "x"
          [] c = "Y" -> "y" [] c = "Z" -> "z"]

\* str.lower() of one character
LowerChar(c) == IF c \in UpperLetters THEN LowerOf[c] ELSE c

RECURSIVE Lower(_)
\* str.lower(), by halves
Lower(s) ==
    IF Len(s) <= 1 THEN LowerChar(s)
    ELSE Lower(SubSeq(s, 1, Len(s) \div 2)) \o Lower(SubSeq(s, Len(s) \div 2 + 1, Len(s)))

CharAt(s, i) == SubSeq(s, i, i)

\* The character classes of the agent's patterns.  ic is re.IGNORECASE.
InClass(c, cls, ic) ==
    CASE cls = "digit"    -> c \in Digits                          \* \d
      [] cls = "space"    -> c \in Whitespace                      \* \s
      [] cls = "word"     -> c \in Digits \cup LowerLetters \cup UpperLetters \cup {"_"}  \* \w
      [] cls = "any"      -> TRUE                                  \* . with re.DOTALL
      [] cls = "dot"      -> c # "\n"                              \* .
      [] cls = "nonspace" -> c \notin Whitespace                   \* [^\s]
      [] cls = "sep"      -> c \in {".", "-", "_", "/"}            \* [.\-_/]
      [] cls = "upper"    -> c \in UpperLetters \/ (ic /\ c \in LowerLetters)   \* [A-Z]
      [] cls = "alpha_sp" -> c \in LowerLetters \cup UpperLetters \cup Whitespace  \* [a-zA-Z\s]
      [] cls = "name"     -> c \in LowerLetters \cup UpperLetters \cup Whitespace \cup {",", "&"}  \* [a-zA-Z\s,&]
      [] cls = "name2"    -> c \in LowerLetters \cup UpperLetters \cup Whitespace \cup {","}  \* [a-zA-Z\s,]
      [] cls = "IV"       -> c \in {"I", "V"} \/ (ic /\ c \in {"i", "v"})       \* [IV]
      [] cls = "envchar"  -> c \in Digits \cup LowerLetters \cup UpperLetters \cup Whitespace \cup {"-", ":"}  \* [A-Za-z0-9\s\-:]
      [] cls = "idchar"   -> c \in Digits \cup LowerLetters \cup UpperLetters \cup {"-"}  \* [A-Za-z0-9\-]
      [] cls = "hex"      -> c \in Digits \cup {"a", "b", "c", "d", "e", "f", "-"}
                             \/ (ic /\ c \in {"A", "B", "C", "D", "E", "F"})    \* [a-f0-9\-]
      [] cls = "colon_sp" -> c \in Whitespace \cup {":"}           \* [:\s]
      [] cls = "dot_sp"   -> c \in Whitespace \cup {"."}           \* [.\s]
      [] cls = "lit_dot"  -> c = "."                               \* \.
      [] cls = "cap"      -> c \in UpperLetters                    \* [A-Z], case-sensitive

\* Pattern elements.  hi = Unbounded stands for no upper limit.
Unbounded == -1
Rep(cls, lo, hi)  == [t |-> "greedy", c |-> cls, lo |-> lo, hi |-> hi]   \* cls{lo,hi}
RepLazy(cls, lo, hi) == [t |-> "lazy", c |-> cls, lo |-> lo, hi |-> hi]  \* cls{lo,hi}?
Lit(w)            == [t |-> "lit", w |-> w]                              \* literal text
Alt(alts)         == [t |-> "alt", a |-> alts]                           \* (p1|p2|...)
Opt(w)            == Alt(<< <<Lit(w)>>, <<>> >>)                         \* w?
Ahead(alts)       == [t |-> "ahead", a |-> alts]                         \* (?=p1|p2|...)
Behind(cls)       == [t |-> "behind", c |-> cls]                         \* (?<=c)
WordB             == [t |-> "wordb"]                                     \* \b
Bol               == [t |-> "bol"]                                       \* ^
Eol               == [t |-> "eol"]                                       \* $
Eot               == [t |-> "eot"]                                       \* \Z

Fail == <<-1>>

IsWordAt(s, i) == i >= 1 /\ i <= Len(s) /\ InClass(CharAt(s, i), "word", FALSE)

Min(S) == CHOOSE x \in S : \A y \in S : x <= y

\* How many characters of class cls follow from position i, at most hi.
RunLen(s, i, cls, hi, ic) ==
    LET avail == IF Len(s) - i + 1 < 0 THEN 0 ELSE Len(s) - i + 1
        most  == IF hi = Unbounded \/ hi > avail THEN avail ELSE hi
    IN Min({n \in 0..most : n = most \/ ~InClass(CharAt(s, i + n), cls, ic)})

RECURSIVE SameFrom(_, _, _, _, _)
\* Whether w[k..] is at s[i..], compared character by character.
SameFrom(s, i, w, k, ic) ==
    \/ k > Len(w)
    \/ /\ IF ic THEN LowerChar(CharAt(s, i)) = LowerChar(CharAt(w, k))
                ELSE CharAt(s, i) = CharAt(w, k)
       /\ SameFrom(s, i + 1, w, k + 1, ic)

LitAt(s, i, w, ic) == i + Len(w) - 1 <= Len(s) /\ SameFrom(s, i, w, 1, ic)

\* The ends of a repetition started at i where n characters of its class
\* follow: longest first when greedy, shortest first when lazy.
RepEnds(e, i, n) ==
    IF n < e.lo THEN <<>>
    ELSE [j \in 1..(n - e.lo + 1) |->
             IF e.t = "greedy" THEN i + n - j + 1 ELSE i + e.lo + j - 1]

RECURSIVE ElemEnds(_, _, _, _), AllEnds(_, _, _, _, _), AltEnds(_, _, _, _, _),
          EachEnds(_, _, _, _, _, _), FirstPath(_, _, _, _, _)

\* The positions at which element e, started at i, can end, in the order the
\* backtracking matcher tries them.
ElemEnds(e, s, i, ic) ==
    CASE e.t \in {"greedy", "lazy"} -> RepEnds(e, i, RunLen(s, i, e.c, e.hi, ic))
      [] e.t = "lit"    -> IF LitAt(s, i, e.w, ic) THEN <<i + Len(e.w)>> ELSE <<>>
      [] e.t = "alt"    -> AltEnds(e.a, 1, s, i, ic)
      [] e.t = "ahead"  -> IF \E k \in 1..Len(e.a) : FirstPath(e.a[k], 1, s, i, ic) # Fail
                           THEN <<i>> ELSE <<>>
      [] e.t = "behind" -> IF i > 1 /\ InClass(CharAt(s, i - 1), e.c, ic) THEN <<i>> ELSE <<>>
      [] e.t = "wordb"  -> IF IsWordAt(s, i - 1) # IsWordAt(s, i) THEN <<i>> ELSE <<>>
      [] e.t = "bol"    -> IF i = 1 THEN <<i>> ELSE <<>>
      [] e.t = "eol"    -> IF i = Len(s) + 1 \/ (i = Len(s) /\ CharAt(s, i) = "\n")
                           THEN <<i>> ELSE <<>>
      [] e.t = "eot"    -> IF i = Len(s) + 1 THEN <<i>> ELSE <<>>

\* The ends of the alternatives alts[k..], first alternative first.
AltEnds(alts, k, s, i, ic) ==
    IF k > Len(alts) THEN <<>>
    ELSE AllEnds(alts[k], 1, s, i, ic) \o AltEnds(alts, k + 1, s, i, ic)

\* Every end of pat[k..] started at i, in backtracking order.
AllEnds(pat, k, s, i, ic) ==
    IF k > Len(pat) THEN <<i>>
    ELSE EachEnds(pat, k, s, ElemEnds(pat[k], s, i, ic), 1, ic)

EachEnds(pat, k, s, es, j, ic) ==
    IF j > Len(es) THEN <<>>
    ELSE AllEnds(pat, k + 1, s, es[j], ic) \o EachEnds(pat, k, s, es, j + 1, ic)

\* The first complete path of pat[k..] started at i: the end of every element
\* of pat[k..], or Fail.  (Comparing rest with the empty sequence has TLC
\* tabulate it, so that every continuation is computed once.)
FirstPath(pat, k, s, i, ic) ==
    LET Pick(es, rest) ==
            LET good == {j \in 1..Len(es) : rest[j] # Fail}
            IN IF rest = <<>> \/ good = {} THEN Fail
               ELSE <<es[Min(good)]>> \o rest[Min(good)]
        Try(es) == Pick(es, [j \in 1..Len(es) |-> FirstPath(pat, k + 1, s, es[j], ic)])
    IN IF k > Len(pat) THEN <<>> ELSE Try(ElemEnds(pat[k], s, i, ic))

NoMatch == [ok |-> FALSE, start |-> 0, ends |-> <<>>]

\* re.search / one step of re.finditer: the leftmost match of pat at or after
\* position from, or NoMatch.
Search(pat, s, from, ic) ==
    LET Leftmost(paths) ==
            LET hits == {p \in DOMAIN paths : paths[p] # Fail}
            IN IF paths = <<>> \/ hits = {} THEN NoMatch
               ELSE [ok |-> TRUE, start |-> Min(hits), ends |-> paths[Min(hits)]]
    IN Leftmost([p \in from..(Len(s) + 1) |-> FirstPath(pat, 1, s, p, ic)])

\* re.match: a match starting at position 1, or NoMatch.
MatchAtStart(pat, s, ic) ==
    LET Anchored(p) == IF p # Fail THEN [ok |-> TRUE, start |-> 1, ends |-> p] ELSE NoMatch
    IN Anchored(FirstPath(pat, 1, s, 1, ic))

\* match.group for the element at index k of the pattern
Group(s, m, k) ==
    LET from == IF k = 1 THEN m.start ELSE m.ends[k - 1]
    IN SubSeq(s, from, m.ends[k] - 1)

\* match.end()
MatchEnd(m) == IF m.ends = <<>> THEN m.start ELSE m.ends[Len(m.ends)]

RECURSIVE FindIter(_, _, _, _)
\* re.finditer: the non-overlapping matches, left to right.
FindIter(pat, s, from, ic) ==
    LET Then(m) ==
            IF ~m.ok THEN <<>>
            ELSE <<m>> \o FindIter(pat, s,
                                   IF MatchEnd(m) = m.start THEN m.start + 1 ELSE MatchEnd(m), ic)
    IN Then(Search(pat, s, from, ic))

\* str.strip()
Strip(s) ==
    LET solid == {i \in 1..Len(s) : CharAt(s, i) \notin Whitespace}
    IN IF solid = {} THEN ""
       ELSE SubSeq(s, Min(solid), CHOOSE i \in solid : \A j \in solid : j <= i)

(***************************************************************************)
(* Section Locator: extract_open_forum_section.                            *)
(***************************************************************************)

\* (.*) under re.DOTALL: the capture without its laziness, which runs to the
\* last end marker instead of the first
GreedyCapture == Rep("any", 0, Unbounded)

\* (.*?) under re.DOTALL
Capture == RepLazy("any", 0, Unbounded)

Words(ws) == [k \in 1..Len(ws) |-> <<Lit(ws[k])>>]

\* The end markers of the standard patterns, with the header that follows.
EndsRoman  == Words(<<"VI.", "Discussion Item", "VII.", "Action Items", "Motion",
                      "Adjournment">>) \o <<<<Eot>>>>
EndsArabic == Words(<<"6.", "Discussion Item", "7.", "Action Items", "Motion",
                      "Adjournment">>) \o <<<<Eot>>>>
EndsBare   == Words(<<"Discussion Item", "Action Items", "Motion", "Adjournment",
                      "Next Meeting">>) \o <<<<Eot>>>>
EndsNine   == Words(<<"VI.", "Discussion Item", "VII.", "Action Items", "Motion",
                      "Adjournment", "9I.", "10.", "AQQRXQFHPHQWV", "AGMRXUQPHQW">>)
              \o <<<<Eot>>>>
EndsGarbled == Words(<<"9I.", "VI.", "Discussion Item", "VII.", "Action Items", "Motion",
                       "Adjournment", "AQQRXQFHPHQWV", "AGMRXUQPHQW">>) \o <<<<Eot>>>>
EndsFlexTail == Words(<<"Discussion", "Action", "Motion", "Adjournment", "Next Meeting">>)
                \o <<<<Eot>>>>

\* [A-Z]{4}\s+[A-Z]{5}
GarbledHeader == <<Rep("upper", 4, 4), Rep("space", 1, Unbounded), Rep("upper", 5, 5)>>

\* patterns (lines 82-99): each with the index of its capture group's element
patterns ==
    << [pat |-> <<Lit("V."), Rep("space", 0, Unbounded), Lit("Open Forum"), Capture,
                  Ahead(EndsRoman)>>, grp |-> 4],
       [pat |-> <<Lit("5."), Rep("space", 0, Unbounded), Lit("Open Forum"), Capture,
                  Ahead(EndsArabic)>>, grp |-> 4],
       [pat |-> <<Lit("Open Forum"), Capture, Ahead(EndsBare)>>, grp |-> 2],
       [pat |-> <<Lit("V."), Rep("space", 0, Unbounded)>> \o GarbledHeader
                \o <<Capture, Ahead(EndsRoman)>>, grp |-> 6],
       [pat |-> <<Lit("5."), Rep("space", 0, Unbounded)>> \o GarbledHeader
                \o <<Capture, Ahead(EndsArabic)>>, grp |-> 6],
       [pat |-> <<Lit("9."), Rep("space", 0, Unbounded)>> \o GarbledHeader
                \o <<Capture, Ahead(EndsNine)>>, grp |-> 6],
       [pat |-> <<Lit("9."), Rep("space", 0, Unbounded), Lit("OSHQ"),
                  Rep("space", 1, Unbounded), Lit("FRUXP"), Capture,
                  Ahead(EndsGarbled)>>, grp |-> 6],
       [pat |-> <<Rep("IV", 0, Unbounded), Lit("."), Rep("space", 0, Unbounded),
                  Lit("open"), Rep("space", 1, Unbounded), Lit("forum"), Capture,
                  Ahead(<< <<Rep("IV", 0, Unbounded), Lit(".")>> >> \o EndsFlexTail)>>,
        grp |-> 7],
       [pat |-> <<Rep("digit", 1, Unbounded), Lit("."), Rep("space", 0, Unbounded),
                  Lit("open"), Rep("space", 1, Unbounded), Lit("forum"), Capture,
                  Ahead(<< <<Rep("digit", 1, Unbounded), Lit(".")>> >> \o EndsFlexTail)>>,
        grp |-> 7] >>

RECURSIVE FirstMatching(_, _, _)
\* The loop of lines 101-110: the index of the first pattern, from i on, that
\* re.search finds somewhere in txt (re.DOTALL | re.IGNORECASE); 0 when none does.
FirstMatching(pats, txt, i) ==
    IF i > Len(pats) THEN 0
    ELSE IF Search(pats[i].pat, txt, 1, TRUE).ok THEN i
    ELSE FirstMatching(pats, txt, i + 1)

extract_open_forum_section(txt) ==
    LET Captured(p) == Strip(Group(txt, Search(p.pat, txt, 1, TRUE), p.grp))
        Return(i) == IF i = 0 THEN None ELSE Captured(patterns[i])
    IN Return(FirstMatching(patterns, txt, 1))

(***************************************************************************)
(* Content Classifier: has_no_comments, is_only_admin_content.             *)
(***************************************************************************)

\* n/?a
NSlashA == <<Lit("n"), Opt("/"), Lit("a")>>

\* no_comment_patterns (lines 127-132)
no_comment_patterns ==
    << <<WordB,
         Alt(<< <<Lit("no open forum")>>, <<Lit("no comment"), Opt("s")>>, <<Lit("none")>>,
                NSlashA, <<Lit("not applicable")>> >>),
         WordB>>,
       <<WordB,
         Alt(<< <<Lit("no public comment")>>, <<Lit("no discussion")>>,
                <<Lit("no speaker"), Opt("s")>> >>),
         WordB>>,
       <<WordB,
         Alt(<< <<Lit("no one spoke")>>, <<Lit("no attendees")>>, <<Lit("no participants")>> >>),
         WordB>>,
       <<Bol, Rep("space", 0, Unbounded), Alt(<< <<Lit("none")>>, NSlashA >>),
         Rep("space", 0, Unbounded), Opt("."), Rep("space", 0, Unbounded), Eol>> >>

\* has_no_comments (lines 134-140): re.search of any pattern, re.IGNORECASE
has_no_comments(txt) ==
    \E k \in 1..Len(no_comment_patterns) : Search(no_comment_patterns[k], txt, 1, TRUE).ok

RECURSIVE CollapseSpace(_)
\* re.sub(r'\s+', ' ', s), one run of whitespace at a time
CollapseSpace(s) ==
    LET gaps == {i \in 1..Len(s) : CharAt(s, i) \in Whitespace}
    IN IF gaps = {} THEN s
       ELSE SubSeq(s, 1, Min(gaps) - 1) \o " "
            \o CollapseSpace(SubSeq(s, Min(gaps) + RunLen(s, Min(gaps), "space", Unbounded, FALSE),
                                    Len(s)))

RECURSIVE SplitWords(_)
\* str.split(): the maximal runs of non-whitespace characters
SplitWords(s) ==
    LET solid == {i \in 1..Len(s) : CharAt(s, i) \notin Whitespace}
        n == RunLen(s, Min(solid), "nonspace", Unbounded, FALSE)
    IN IF solid = {} THEN <<>>
       ELSE <<SubSeq(s, Min(solid), Min(solid) + n - 1)>>
            \o SplitWords(SubSeq(s, Min(solid) + n, Len(s)))

\* sub in s
Contains(s, sub) == \E i \in 1..(Len(s) - Len(sub) + 1) : LitAt(s, i, sub, FALSE)

\* admin_only_patterns (lines 326-332)
admin_only_patterns ==
    << <<Bol, Rep("envchar", 1, Unbounded), Lit("envelope"), Rep("space", 1, Unbounded),
         Lit("id"), Rep("colon_sp", 0, Unbounded), Rep("idchar", 1, Unbounded),
         Rep("space", 0, Unbounded), Eol>>,
       <<Bol, Lit("page"), Rep("space", 1, Unbounded), Rep("digit", 1, Unbounded),
         Rep("space", 0, Unbounded), Eol>>,
       <<Bol, Lit("continued"), Rep("space", 0, Unbounded), Eol>>,
       <<Bol, Lit("end"), Rep("space", 0, Unbounded), Eol>>,
       <<Bol, Rep("space", 0, Unbounded), Eol>> >>

\* admin_words (line 339)
admin_words == {"docusign", "envelope", "id", "page", "continued", "end"}

\* The thresholds of is_only_admin_content
MinCleanLen == 10
MinNonAdminWords == 3

\* is_only_admin_content (lines 308-347)
is_only_admin_content(txt) ==
    LET non_admin_words(words) ==
            {k \in 1..Len(words) : \A a \in admin_words : ~Contains(words[k], a)}
        Decide(clean_text) ==
            \/ Len(clean_text) < MinCleanLen
            \/ \E k \in 1..Len(admin_only_patterns) :
                   MatchAtStart(admin_only_patterns[k], clean_text, TRUE).ok
            \/ Cardinality(non_admin_words(SplitWords(Lower(clean_text)))) < MinNonAdminWords
    IN Decide(CollapseSpace(Strip(txt)))

(***************************************************************************)
(* Comment Segmenter: count_public_comments and its helpers.               *)
(***************************************************************************)

\* s[a:b] for 0 <= a <= b <= len(s)
Slice(s, a, b) == SubSeq(s, a + 1, b)

RECURSIVE SplitAt(_, _, _, _)
\* The pieces of s between the matches ms[k..], the first piece starting at from.
SplitAt(s, ms, k, from) ==
    IF k > Len(ms) THEN <<SubSeq(s, from, Len(s))>>
    ELSE <<SubSeq(s, from, ms[k].start - 1)>> \o SplitAt(s, ms, k + 1, MatchEnd(ms[k]))

\* r'\n\s*\n|\r\n\s*\r\n' (line 165)
paragraph_break ==
    <<Alt(<< <<Lit("\n"), Rep("space", 0, Unbounded), Lit("\n")>>,
             <<Lit("\r\n"), Rep("space", 0, Unbounded), Lit("\r\n")>> >>)>>

\* re.split(paragraph_break, s)
SplitParagraphs(s) == SplitAt(s, FindIter(paragraph_break, s, 1, FALSE), 1, 1)

\* r'^\s*(page \d+|continued|end)\s*$' (line 173)
page_line ==
    <<Bol, Rep("space", 0, Unbounded),
      Alt(<< <<Lit("page "), Rep("digit", 1, Unbounded)>>, <<Lit("continued")>>, <<Lit("end")>> >>),
      Rep("space", 0, Unbounded), Eol>>

\* admin_patterns (lines 363-372)
admin_patterns ==
    << <<Lit("docusign"), Rep("space", 1, Unbounded), Lit("envelope"),
         Rep("space", 1, Unbounded), Lit("id:")>>,
       <<Lit("page"), Rep("space", 1, Unbounded), Rep("digit", 1, Unbounded)>>,
       <<Bol, Lit("continued"), Rep("space", 0, Unbounded), Eol>>,
       <<Bol, Lit("end"), Rep("space", 0, Unbounded), Eol>>,
       <<Bol, Rep("space", 0, Unbounded), Rep("digit", 1, Unbounded),
         Rep("space", 0, Unbounded), Eol>>,
       <<Lit("meeting"), Rep("space", 1, Unbounded), Lit("id:")>>,
       <<Lit("zoom"), Rep("space", 1, Unbounded), Lit("call:")>>,
       <<Lit("passcode:")>> >>

\* The thresholds of count_public_comments, is_admin_paragraph and
\* split_by_clear_boundaries
MinParagraphLen == 20
ShortParagraphLen == 50
MinPieceLen == 30

\* is_admin_paragraph (lines 349-395).  Only a paragraph shorter than 50
\* characters can be administrative: the branch for paragraphs longer than 100
\* characters (lines 380-393) strips the markers, measures what is left and
\* returns False whatever it finds, as does line 395.
is_admin_paragraph(paragraph) ==
    LET Short(clean_para) ==
            /\ Len(clean_para) < ShortParagraphLen
            /\ \E k \in 1..Len(admin_patterns) :
                   Search(admin_patterns[k], clean_para, 1, FALSE).ok
    IN Short(Lower(Strip(paragraph)))

\* pattern (line 205)
speaker_boundary ==
    <<Behind("lit_dot"), Rep("space", 0, Unbounded), Lit("\n"),
      Ahead(<< <<Rep("cap", 1, 1), Rep("name", 1, Unbounded), Lit(" "),
                 Alt(<< <<Lit("meeting time"), Opt("s"), Lit(" were asked by")>>,
                        <<Lit("was asked by")>>, <<Lit("asked by")>>, <<Lit("stated by")>> >>)>> >>)>>

\* pattern2 (line 208)
per_boundary ==
    <<Behind("lit_dot"), Rep("space", 0, Unbounded), Lit("\n"),
      Ahead(<< <<Lit("Per "), Rep("cap", 1, 1), Rep("name2", 1, Unbounded), Lit(",")>> >>)>>

\* match.end() - 1 as a Python offset, for every match of pat (lines 213-215)
SplitPoints(pat, paragraph) ==
    LET Ends(ms) == {MatchEnd(ms[k]) - 2 : k \in 1..Len(ms)}
    IN Ends(FindIter(pat, paragraph, 1, FALSE))

RECURSIVE SortedSeq(_)
\* sorted(list(set(...)))
SortedSeq(S) == IF S = {} THEN <<>> ELSE <<Min(S)>> \o SortedSeq(S \ {Min(S)})

\* Every piece is kept, whatever its length
EveryPiece(piece) == <<Strip(piece)>>

\* The unit a piece gives (lines 228-230, 235-237): itself stripped, when it is
\* longer than 30 characters.
PieceUnits(piece) ==
    LET Keep(comment) == IF Len(comment) > MinPieceLen THEN <<comment>> ELSE <<>>
    IN Keep(Strip(piece))

RECURSIVE CutPieces(_, _, _, _)
\* The loop of lines 226-237 from boundary k on, the current piece starting at
\* offset start.
CutPieces(paragraph, points, k, start) ==
    IF k > Len(points)
    THEN IF start < Len(paragraph) THEN PieceUnits(Slice(paragraph, start, Len(paragraph)))
         ELSE <<>>
    ELSE (IF start < points[k] THEN PieceUnits(Slice(paragraph, start, points[k])) ELSE <<>>)
         \o CutPieces(paragraph, points, k + 1, points[k])

\* split_by_clear_boundaries (lines 190-243)
split_by_clear_boundaries(paragraph) ==
    LET Whole(stripped) == IF stripped # "" THEN <<stripped>> ELSE <<>>
        Result(split_points, comments, whole) ==
            IF split_points = {} THEN whole
            ELSE IF comments = <<>> THEN whole
            ELSE comments
        Cut(split_points) ==
            Result(split_points, CutPieces(paragraph, SortedSeq(split_points), 1, 0),
                   Whole(Strip(paragraph)))
    IN Cut(SplitPoints(speaker_boundary, paragraph) \cup SplitPoints(per_boundary, paragraph))

\* The units of a paragraph without the filter of lines 172-174
UnfilteredUnits(raw) == split_by_clear_boundaries(Strip(raw))

\* The units one paragraph contributes (lines 170-179)
ParagraphUnits(raw) ==
    LET Units(para) ==
            IF /\ Len(para) > MinParagraphLen
               /\ ~MatchAtStart(page_line, para, TRUE).ok
               /\ ~is_admin_paragraph(para)
            THEN split_by_clear_boundaries(para)
            ELSE <<>>
    IN Units(Strip(raw))

RECURSIVE ValidParagraphs(_, _)
\* valid_paragraphs (lines 168-179) from paragraph k on
ValidParagraphs(paragraphs, k) ==
    IF k > Len(paragraphs) THEN <<>>
    ELSE ParagraphUnits(paragraphs[k]) \o ValidParagraphs(paragraphs, k + 1)

\* count_public_comments without the classifier's two checks: every span is
\* segmented
count_every_span(txt) == Len(ValidParagraphs(SplitParagraphs(txt), 1))

\* count_public_comments (lines 142-188)
count_public_comments(txt) ==
    IF txt = "" \/ has_no_comments(txt) THEN 0
    ELSE IF is_only_admin_content(txt) THEN 0
    ELSE Len(ValidParagraphs(SplitParagraphs(txt), 1))

(***************************************************************************)
(* Date Extractor: extract_date_from_filename.                             *)
(***************************************************************************)

UnknownDate == "Unknown Date"

D(lo, hi) == Rep("digit", lo, hi)
Sep == Rep("sep", 1, 1)
Sp0 == Rep("space", 0, Unbounded)

\* date_patterns (lines 414-435): each with the indexes of its three groups
date_patterns ==
    << [pat |-> <<D(1, 2), Sep, D(1, 2), Sep, D(4, 4)>>, g |-> <<1, 3, 5>>],
       [pat |-> <<D(1, 2), Sep, D(1, 2), Sep, D(2, 2)>>, g |-> <<1, 3, 5>>],
       [pat |-> <<D(4, 4), Sep, D(1, 2), Sep, D(1, 2)>>, g |-> <<1, 3, 5>>],
       [pat |-> <<Rep("space", 1, Unbounded), D(1, 2), Sep, Sp0, D(1, 2), Sep, Sp0, D(4, 4)>>,
        g |-> <<2, 5, 8>>],
       [pat |-> <<Rep("space", 1, Unbounded), D(1, 2), Sep, Sp0, D(1, 2), Sep, Sp0, D(2, 2)>>,
        g |-> <<2, 5, 8>>],
       [pat |-> <<D(1, 2), Sp0, Sep, Sp0, D(1, 2), Sp0, Sep, Sp0, D(4, 4)>>, g |-> <<1, 5, 9>>],
       [pat |-> <<D(1, 2), Sp0, Sep, Sp0, D(1, 2), Sp0, Sep, Sp0, D(2, 2)>>, g |-> <<1, 5, 9>>],
       [pat |-> <<D(2, 2), D(2, 2), D(4, 4)>>, g |-> <<1, 2, 3>>],
       [pat |-> <<D(1, 1), D(2, 2), D(4, 4)>>, g |-> <<1, 2, 3>>],
       [pat |-> <<D(2, 2), D(1, 1), D(4, 4)>>, g |-> <<1, 2, 3>>],
       [pat |-> <<D(1, 1), D(1, 1), D(4, 4)>>, g |-> <<1, 2, 3>>],
       [pat |-> <<D(2, 2), D(2, 2), D(2, 2)>>, g |-> <<1, 2, 3>>],
       [pat |-> <<Rep("alpha_sp", 1, Unbounded), D(1, 2), Sep, D(1, 2), Sep, D(2, 4),
                  Rep("alpha_sp", 0, Unbounded)>>, g |-> <<2, 4, 6>>] >>

\* match.groups() of every match of one pattern, left to right (lines 441-445)
PatternCandidates(dp, filename) ==
    LET Groups(ms) ==
            [k \in 1..Len(ms) |->
                <<Group(filename, ms[k], dp.g[1]), Group(filename, ms[k], dp.g[2]),
                  Group(filename, ms[k], dp.g[3])>>]
    IN Groups(FindIter(dp.pat, filename, 1, FALSE))

RECURSIVE CandidatesLastFirst(_, _)
\* The candidates with the patterns taken from the last to the first
CandidatesLastFirst(filename, k) ==
    IF k > Len(date_patterns) THEN <<>>
    ELSE CandidatesLastFirst(filename, k + 1) \o PatternCandidates(date_patterns[k], filename)

RECURSIVE Candidates(_, _)
\* candidates (lines 438-445), from pattern k on
Candidates(filename, k) ==
    IF k > Len(date_patterns) THEN <<>>
    ELSE PatternCandidates(date_patterns[k], filename) \o Candidates(filename, k + 1)

DigitValue(c) ==
    CASE c = "0" -> 0 [] c = "1" -> 1 [] c = "2" -> 2 [] c = "3" -> 3 [] c = "4" -> 4
      [] c = "5" -> 5 [] c = "6" -> 6 [] c = "7" -> 7 [] c = "8" -> 8 [] c = "9" -> 9

RECURSIVE ParseInt(_)
\* int() of a string of digits
ParseInt(ds) ==
    IF ds = "" THEN 0
    ELSE 10 * ParseInt(SubSeq(ds, 1, Len(ds) - 1)) + DigitValue(CharAt(ds, Len(ds)))

\* The ranges a date is accepted in (lines 459, 468-479)
CenturyPivot == 50
MinYear == 1990
MaxYear == 2030

\* 2000 + yy if yy <= 50 else 1900 + yy (lines 459, 519)
ExpandYear(yy) == IF yy <= CenturyPivot THEN 2000 + yy ELSE 1900 + yy

IsLeap(year) == year % 4 = 0 /\ (year % 100 # 0 \/ year % 400 = 0)

DaysInMonth(year, month) ==
    IF month = 2 THEN (IF IsLeap(year) THEN 29 ELSE 28)
    ELSE IF month \in {4, 6, 9, 11} THEN 30 ELSE 31

\* datetime.date(year, month, day) does not raise ValueError
IsRealDate(year, month, day) ==
    /\ year \in 1..9999 /\ month \in 1..12
    /\ day >= 1 /\ day <= DaysInMonth(year, month)

\* f"{n}": the number without its zero padding
Unpadded(n) == ToString(n)

\* f"{n:02d}"
Pad2(n) == IF n < 10 THEN "0" \o ToString(n) ELSE ToString(n)

\* f"{month:02d}.{day:02d}.{year}"
FormatDate(month, day, year) == Pad2(month) \o "." \o Pad2(day) \o "." \o ToString(year)

\* The (year, month, day) a triplet is read as (lines 454-465); ok is FALSE
\* where the code skips the candidate.
ReadTriplet(c) ==
    LET Read(a, b, z) ==
            IF Len(c[3]) = 4 THEN [ok |-> TRUE, year |-> z, month |-> a, day |-> b]
            ELSE IF Len(c[3]) = 2
            THEN [ok |-> TRUE, year |-> ExpandYear(z), month |-> a, day |-> b]
            ELSE IF Len(c[1]) = 4 THEN [ok |-> TRUE, year |-> a, month |-> b, day |-> z]
            ELSE [ok |-> FALSE, year |-> 0, month |-> 0, day |-> 0]
    IN Read(ParseInt(c[1]), ParseInt(c[2]), ParseInt(c[3]))

\* Month and day after the swap of lines 468-473; ok is FALSE where the code
\* skips the candidate.
SwapMonthDay(r) ==
    IF r.month >= 1 /\ r.month <= 12 THEN r
    ELSE IF r.day >= 1 /\ r.day <= 12 THEN [r EXCEPT !.month = r.day, !.day = r.month]
    ELSE [r EXCEPT !.ok = FALSE]

\* One pass of the loop of lines 448-492: the date the candidate gives, or None
\* where the loop continues.
ValidateCandidate(c) ==
    LET Check(r) ==
            IF /\ r.ok
               /\ r.day >= 1 /\ r.day <= 31
               /\ r.year >= MinYear /\ r.year <= MaxYear
               /\ IsRealDate(r.year, r.month, r.day)
            THEN FormatDate(r.month, r.day, r.year)
            ELSE None
    IN Check(SwapMonthDay(ReadTriplet(c)))

\* The first candidate that validates (lines 448-489), or None
NumericDate(filename) ==
    LET First(dates) ==
            LET good == {k \in 1..Len(dates) : dates[k] # None}
            IN IF dates = <<>> \/ good = {} THEN None ELSE dates[Min(good)]
        Validated(cs) == First([k \in 1..Len(cs) |-> ValidateCandidate(cs[k])])
    IN Validated(Candidates(filename, 1))

MonthName(w) == <<WordB, Alt(w), WordB, RepLazy("dot", 0, Unbounded), D(1, 2),
                  RepLazy("dot", 0, Unbounded), D(2, 4)>>

\* month_patterns (lines 495-508), in the dictionary's order: entry k is month k
month_patterns ==
    << MonthName(Words(<<"jan", "january">>)), MonthName(Words(<<"feb", "february">>)),
       MonthName(Words(<<"mar", "march">>)), MonthName(Words(<<"apr", "april">>)),
       MonthName(Words(<<"may">>)), MonthName(Words(<<"jun", "june">>)),
       MonthName(Words(<<"jul", "july">>)), MonthName(Words(<<"aug", "august">>)),
       MonthName(Words(<<"sep", "september">>)), MonthName(Words(<<"oct", "october">>)),
       MonthName(Words(<<"nov", "november">>)), MonthName(Words(<<"dec", "december">>)) >>

\* One pass of the loop of lines 511-524 for month number `month`: the date, or
\* None where the loop goes on.
MonthNameCandidate(filename_lower, month) ==
    LET Year(year_str, n) == IF Len(year_str) = 2 THEN ExpandYear(n) ELSE n
        Check(day, year) ==
            IF day >= 1 /\ day <= 31 /\ year >= MinYear /\ year <= MaxYear
            THEN FormatDate(month, day, year)
            ELSE None
        Found(m, day_str, year_str) ==
            IF m.ok THEN Check(ParseInt(day_str), Year(year_str, ParseInt(year_str))) ELSE None
        Read(m) == Found(m, Group(filename_lower, m, 5), Group(filename_lower, m, 7))
    IN Read(Search(month_patterns[month], filename_lower, 1, FALSE))

\* The month-name scan (lines 494-524), or None
MonthNameDate(filename) ==
    LET First(dates) ==
            LET good == {k \in 1..Len(dates) : dates[k] # None}
            IN IF dates = <<>> \/ good = {} THEN None ELSE dates[Min(good)]
        Scan(filename_lower) ==
            First([k \in 1..Len(month_patterns) |-> MonthNameCandidate(filename_lower, k)])
    IN Scan(Lower(filename))

\* extract_date_from_filename (lines 397-526)
extract_date_from_filename(filename) ==
    LET OrUnknown(named) == IF named # None THEN named ELSE UnknownDate
        OrNamed(numeric) == IF numeric # None THEN numeric ELSE OrUnknown(MonthNameDate(filename))
    IN OrNamed(NumericDate(filename))

(***************************************************************************)
(* Aggregator: main, process_folder, process_single_year_folder_with_stats,*)
(* process_single_year_folder and process_single_pdf.                      *)
(***************************************************************************)

\* At most MaxFiles PDF files are found in one run.
MaxFiles == 2

\* What the PDF text provider (fitz) gives for a document: its text, or an
\* exception where readable is FALSE.
Unreadable == [readable |-> FALSE, text |-> ""]
Readable(t) == [readable |-> TRUE, text |-> t]

Documents ==
    { Unreadable,
      Readable("I. Call to Order\nII. Reports\nNothing else."),
      Readable("V. Open Forum\nVI. Discussion Items\nBudget."),
      Readable("V. Open Forum\nNo public comment.\nVI. Discussion Items"),
      Readable("V. Open Forum\nJohn asked about parking on campus.\nVI. Discussion Items"),
      Readable("V. Open Forum\nJohn asked about parking on campus.\n\nMary wants longer library hours.\nVI. Discussion Items") }

PdfNames == {"Minutes 1.2.21.pdf", "01022021.PDF", "notes.pdf"}

\* The entries os.walk can yield: PDF files, and a file that is no PDF.
Files ==
    [name : PdfNames, doc : Documents] \cup {[name |-> "readme.txt", doc |-> Unreadable]}

\* The entries os.listdir can yield for the root folder.
RootItems ==
    { [name |-> "2021-2022", is_dir |-> TRUE], [name |-> "2022-2023", is_dir |-> TRUE],
      [name |-> "Archive", is_dir |-> TRUE], [name |-> "2020-2021.pdf", is_dir |-> FALSE] }

AllFiles == "All Files"

\* The listings of a directory: its entries in any order, each once.
Orderings(S) ==
    UNION {{q \in [1..Cardinality(T) -> T] : \A i, j \in 1..Cardinality(T) : q[i] = q[j] => i = j}
           : T \in SUBSET S}

\* extract_text_from_pdf (lines 43-69): any exception gives ""
extract_text_from_pdf(doc) == IF doc.readable THEN doc.text ELSE ""

\* file.lower().endswith('.pdf') (lines 640, 675)
IsPdf(name) == Len(name) >= 4 /\ Lower(SubSeq(name, Len(name) - 3, Len(name))) = ".pdf"

\* The order of the characters of a year folder's name
CharOrd(c) == IF c = "-" THEN 0 ELSE 1 + DigitValue(c)

RECURSIVE StrLess(_, _)
\* a < b for two strings of digits and dashes
StrLess(a, b) ==
    IF b = "" THEN FALSE
    ELSE IF a = "" THEN TRUE
    ELSE IF Head(a) # Head(b) THEN CharOrd(Head(a)) < CharOrd(Head(b))
    ELSE StrLess(Tail(a), Tail(b))

RECURSIVE Descending(_)
\* The year folders in the opposite of the sorted order, as a listing that is
\* left unsorted may give them
Descending(S) ==
    IF S = {} THEN <<>>
    ELSE LET most == CHOOSE x \in S : \A y \in S \ {x} : StrLess(y, x)
         IN <<most>> \o Descending(S \ {most})

RECURSIVE SortNames(_)
\* list.sort() of the year folders (line 590)
SortNames(S) ==
    IF S = {} THEN <<>>
    ELSE LET least == CHOOSE x \in S : \A y \in S \ {x} : StrLess(x, y)
         IN <<least>> \o SortNames(S \ {least})

\* re.match(r'\d{4}-\d{4}', item) (line 587)
year_pattern == <<D(4, 4), Lit("-"), D(4, 4)>>

\* re.match(r'\d{4}-\d{4}', item) as a table over the names of the model (the
\* comparison has TLC tabulate the function once)
IsYearName ==
    LET Table(t) == IF t = <<>> THEN t ELSE t
    IN Table([n \in {i.name : i \in RootItems} |-> MatchAtStart(year_pattern, n, FALSE).ok])

\* The names of the yearly folders of a root listing (lines 584-588)
YearNamesOf(items) ==
    {items[k].name : k \in {j \in 1..Len(items) : items[j].is_dir /\ IsYearName[items[j].name]}}

\* What the loop body makes of one file (lines 689-715, 538-564): its date, its
\* text, the section located in it and the number of comments counted.
Outcome(f) ==
    LET Counted(txt, section, count) ==
            [date |-> extract_date_from_filename(f.name), text |-> txt, section |-> section,
             count |-> count,
             kind |-> IF txt = "" THEN "no_text"
                      ELSE IF section = None \/ section = "" THEN "no_section"
                      ELSE IF count > 0 THEN "comments"
                      ELSE "no_comments"]
        Located(txt, section) ==
            Counted(txt, section,
                    IF section = None \/ section = "" THEN 0 ELSE count_public_comments(section))
        Read(txt) == Located(txt, IF txt = "" THEN None ELSE extract_open_forum_section(txt))
    IN Read(extract_text_from_pdf(f.doc))

\* Outcome as a table over the files of the model (the comparison has TLC
\* tabulate the function once instead of evaluating Outcome at every use)
OutcomeOf ==
    LET Table(t) == IF t = <<>> THEN t ELSE t
    IN Table([f \in Files |-> Outcome(f)])

\* comment_count_map[date] = count
Put(map, key, value) == [k \in DOMAIN map \cup {key} |-> IF k = key THEN value ELSE map[k]]

EmptyMap == <<>>

NewStats == [total_files |-> 0, processed_files |-> 0, skipped_files |-> 0, total_comments |-> 0]

NewTally == [total_meetings |-> 0, meetings_with_comments |-> 0, meetings_no_comments |-> 0,
             meetings_no_open_forum |-> 0, total_comments |-> 0]

\* processed_files += comment_count instead of += 1
AddProcessedPerComment(stats, count) ==
    [stats EXCEPT !.processed_files = @ + count, !.total_comments = @ + count]

\* The statistics after a file with comments (lines 651-653, 707-712)
AddProcessed(stats, count) ==
    [stats EXCEPT !.processed_files = @ + 1, !.total_comments = @ + count]

\* The statistics after a skipped file (lines 654-655, 713-715)
AddSkipped(stats) == [stats EXCEPT !.skipped_files = @ + 1]

RECURSIVE BucketAfter(_, _, _)
\* comment_count_map after the loop of lines 647-653, 688-712 has gone over
\* files[k..], starting from map
BucketAfter(files, k, map) ==
    IF k > Len(files) THEN map
    ELSE BucketAfter(files, k + 1,
                     IF OutcomeOf[files[k]].kind = "comments"
                     THEN Put(map, OutcomeOf[files[k]].date, OutcomeOf[files[k]].count)
                     ELSE map)

\* A call of one of the text functions: its argument, and its result once it
\* has returned.
NoCall == [fn |-> "", arg |-> "", ret |-> "", done |-> FALSE]
Call(fn, arg) == [fn |-> fn, arg |-> arg, ret |-> "", done |-> FALSE]

VARIABLES
    pc,                \* where the run is: start, scan, walk, file, flat_walk, flat, done,
                       \* failed
    root_kind,         \* the root path given: missing, file or dir
    yearly_folders,    \* the sorted names of the year folders
    year_idx,          \* the position of the loop of line 599
    year_dirs,         \* which of Minutes and Minute the current year folder has
    minutes_path,      \* the subfolder resolved for the current year
    pdf_files,         \* the PDF files of the folder being processed
    file_idx,          \* the position of the loop of lines 647, 688
    comment_count_map, \* date -> count of the folder being processed
    tally,             \* the counters of lines 678-682
    total_pdf_files,   \* line 581
    yearly_results,    \* year -> date -> count
    meeting_stats,     \* self.meeting_stats
    processing_stats,  \* self.processing_stats
    skipped_files,     \* self.skipped_files
    exit_code,         \* the exit codes main has ended with: none while it runs, then one
    listings,          \* history: the PDF files enumerated, by bucket
    visited,           \* history: the (bucket, index) of every file processed, in order
    call               \* a single call of one of the text functions

vars == <<pc, root_kind, yearly_folders, year_idx, year_dirs, minutes_path, pdf_files,
          file_idx, comment_count_map, tally, total_pdf_files, yearly_results,
          meeting_stats, processing_stats, skipped_files, exit_code, listings, visited, call>>

\* AIMinutesAgent() (lines 27-41), before main calls process_folder
Constructed ==
    /\ yearly_folders = <<>> /\ year_idx = 0
    /\ year_dirs = {} /\ minutes_path = None
    /\ pdf_files = <<>> /\ file_idx = 0
    /\ comment_count_map = EmptyMap /\ tally = NewTally
    /\ total_pdf_files = 0
    /\ yearly_results = EmptyMap /\ meeting_stats = EmptyMap
    /\ processing_stats = NewStats
    /\ skipped_files = <<>>
    /\ exit_code = <<>>
    /\ listings = EmptyMap /\ visited = <<>>

Init ==
    /\ pc = "start"
    /\ root_kind \in {"missing", "file", "dir"}
    /\ Constructed
    /\ call = NoCall

Year == yearly_folders[year_idx]

Listed == LET RECURSIVE Sum(_)
              Sum(S) == IF S = {} THEN 0
                        ELSE LET y == CHOOSE y \in S : TRUE IN Len(listings[y]) + Sum(S \ {y})
          IN Sum(DOMAIN listings)

\* process_folder on a path that does not exist (lines 576-577); main exits 1
\* (lines 892-894).
StartMissing ==
    /\ pc = "start" /\ root_kind = "missing"
    /\ pc' = "failed" /\ exit_code' = <<1>>
    /\ UNCHANGED <<root_kind, yearly_folders, year_idx, year_dirs, minutes_path, pdf_files,
                   file_idx, comment_count_map, tally, total_pdf_files, yearly_results,
                   meeting_stats, processing_stats, skipped_files, listings, visited, call>>

\* process_folder on a path that exists and is no directory: os.listdir
\* (line 585) raises NotADirectoryError; main exits 1 (lines 892-894).
StartNotDir ==
    /\ pc = "start" /\ root_kind = "file"
    /\ pc' = "failed" /\ exit_code' = <<1>>
    /\ UNCHANGED <<root_kind, yearly_folders, year_idx, year_dirs, minutes_path, pdf_files,
                   file_idx, comment_count_map, tally, total_pdf_files, yearly_results,
                   meeting_stats, processing_stats, skipped_files, listings, visited, call>>

\* process_folder finds yearly folders (lines 579-596)
StartYears ==
    /\ pc = "start" /\ root_kind = "dir"
    /\ \E items \in Orderings(RootItems) :
          /\ YearNamesOf(items) # {}
          /\ yearly_folders' = SortNames(YearNamesOf(items))
    /\ year_idx' = 1
    /\ pc' = "scan"
    /\ UNCHANGED <<root_kind, year_dirs, minutes_path, pdf_files, file_idx, comment_count_map,
                   tally, total_pdf_files, yearly_results, meeting_stats, processing_stats,
                   skipped_files, exit_code, listings, visited, call>>

\* process_folder finds no yearly folder and falls back to the root itself
\* (lines 592-594); process_single_year_folder begins (lines 634-635).
StartFallback ==
    /\ pc = "start" /\ root_kind = "dir"
    /\ \E items \in Orderings(RootItems) : YearNamesOf(items) = {}
    /\ pdf_files' = <<>>
    /\ comment_count_map' = EmptyMap
    /\ pc' = "flat_walk"
    /\ UNCHANGED <<root_kind, yearly_folders, year_idx, year_dirs, minutes_path, file_idx,
                   tally, total_pdf_files, yearly_results, meeting_stats, processing_stats,
                   skipped_files, exit_code, listings, visited, call>>

\* The skipped year is given an empty bucket
SkipYearWithBucket ==
    /\ pc = "scan" /\ year_idx <= Len(yearly_folders)
    /\ year_dirs' = {} /\ minutes_path' = None
    /\ year_idx' = year_idx + 1
    /\ yearly_results' = Put(yearly_results, Year, EmptyMap)
    /\ UNCHANGED <<pc, root_kind, yearly_folders, pdf_files, file_idx, comment_count_map,
                   tally, total_pdf_files, meeting_stats, processing_stats,
                   skipped_files, exit_code, listings, visited, call>>

\* A year folder with neither Minutes nor Minute is skipped (lines 603-609)
SkipYear ==
    /\ pc = "scan" /\ year_idx <= Len(yearly_folders)
    /\ year_dirs' = {} /\ minutes_path' = None
    /\ year_idx' = year_idx + 1
    /\ UNCHANGED <<pc, root_kind, yearly_folders, pdf_files, file_idx, comment_count_map,
                   tally, total_pdf_files, yearly_results, meeting_stats, processing_stats,
                   skipped_files, exit_code, listings, visited, call>>

\* The Minutes or Minute subfolder is resolved (lines 603-607) and
\* process_single_year_folder_with_stats begins (lines 669-670).
EnterYear ==
    /\ pc = "scan" /\ year_idx <= Len(yearly_folders)
    /\ \E dirs \in SUBSET {"Minutes", "Minute"} \ {{}} :
          /\ year_dirs' = dirs
          /\ minutes_path' = IF "Minutes" \in dirs THEN "Minutes" ELSE "Minute"
    /\ pdf_files' = <<>>
    /\ comment_count_map' = EmptyMap
    /\ pc' = "walk"
    /\ UNCHANGED <<root_kind, yearly_folders, year_idx, file_idx, tally, total_pdf_files,
                   yearly_results, meeting_stats, processing_stats, skipped_files, exit_code,
                   listings, visited, call>>

\* os.walk yields one more file, which is kept if it is a PDF (lines 638-641,
\* 673-676).
WalkFile ==
    /\ pc \in {"walk", "flat_walk"}
    /\ Listed + Len(pdf_files) < MaxFiles
    /\ \E f \in Files : pdf_files' = IF IsPdf(f.name) THEN Append(pdf_files, f) ELSE pdf_files
    /\ UNCHANGED <<pc, root_kind, yearly_folders, year_idx, year_dirs, minutes_path, file_idx,
                   comment_count_map, tally, total_pdf_files, yearly_results, meeting_stats,
                   processing_stats, skipped_files, exit_code, listings, visited, call>>

\* The walk of a year's folder is over and the counters are set up (lines
\* 678-682).
EndWalk ==
    /\ pc = "walk"
    /\ listings' = Put(listings, Year, pdf_files)
    /\ tally' = [NewTally EXCEPT !.total_meetings = Len(pdf_files)]
    /\ file_idx' = 1
    /\ pc' = "file"
    /\ UNCHANGED <<root_kind, yearly_folders, year_idx, year_dirs, minutes_path, pdf_files,
                   comment_count_map, total_pdf_files, yearly_results, meeting_stats,
                   processing_stats, skipped_files, exit_code, visited, call>>

\* The walk of the root folder is over (lines 643-647).
EndFlatWalk ==
    /\ pc = "flat_walk"
    /\ listings' = Put(listings, AllFiles, pdf_files)
    /\ file_idx' = 1
    /\ pc' = "flat"
    /\ UNCHANGED <<root_kind, yearly_folders, year_idx, year_dirs, minutes_path, pdf_files,
                   comment_count_map, tally, total_pdf_files, yearly_results, meeting_stats,
                   processing_stats, skipped_files, exit_code, visited, call>>

\* The loop body with a file that has no text tallied nowhere
ProcessFileTextless ==
    /\ pc = "file" /\ file_idx <= Len(pdf_files)
    /\ \E o \in {OutcomeOf[pdf_files[file_idx]]} :
          CASE o.kind = "no_text" ->
                 UNCHANGED <<tally, comment_count_map, processing_stats>>
            [] o.kind = "no_section" ->
                 /\ tally' = [tally EXCEPT !.meetings_no_open_forum = @ + 1]
                 /\ UNCHANGED <<comment_count_map, processing_stats>>
            [] o.kind = "comments" ->
                 /\ comment_count_map' = Put(comment_count_map, o.date, o.count)
                 /\ tally' = [tally EXCEPT !.meetings_with_comments = @ + 1,
                                            !.total_comments = @ + o.count]
                 /\ processing_stats' = AddProcessed(processing_stats, o.count)
            [] o.kind = "no_comments" ->
                 /\ tally' = [tally EXCEPT !.meetings_no_comments = @ + 1]
                 /\ processing_stats' = AddSkipped(processing_stats)
                 /\ UNCHANGED comment_count_map
    /\ visited' = Append(visited, <<Year, file_idx>>)
    /\ file_idx' = file_idx + 1
    /\ UNCHANGED <<pc, root_kind, yearly_folders, year_idx, year_dirs, minutes_path, pdf_files,
                   total_pdf_files, yearly_results, meeting_stats, skipped_files, exit_code,
                   listings, call>>

\* One pass of the loop of process_single_year_folder_with_stats (lines 688-715)
ProcessFile ==
    /\ pc = "file" /\ file_idx <= Len(pdf_files)
    /\ \E o \in {OutcomeOf[pdf_files[file_idx]]} :
          CASE o.kind \in {"no_text", "no_section"} ->
                 /\ tally' = [tally EXCEPT !.meetings_no_open_forum = @ + 1]
                 /\ UNCHANGED <<comment_count_map, processing_stats>>
            [] o.kind = "comments" ->
                 /\ comment_count_map' = Put(comment_count_map, o.date, o.count)
                 /\ tally' = [tally EXCEPT !.meetings_with_comments = @ + 1,
                                            !.total_comments = @ + o.count]
                 /\ processing_stats' = AddProcessed(processing_stats, o.count)
            [] o.kind = "no_comments" ->
                 /\ tally' = [tally EXCEPT !.meetings_no_comments = @ + 1]
                 /\ processing_stats' = AddSkipped(processing_stats)
                 /\ UNCHANGED comment_count_map
    /\ visited' = Append(visited, <<Year, file_idx>>)
    /\ file_idx' = file_idx + 1
    /\ UNCHANGED <<pc, root_kind, yearly_folders, year_idx, year_dirs, minutes_path, pdf_files,
                   total_pdf_files, yearly_results, meeting_stats, skipped_files, exit_code,
                   listings, call>>

\* The year's results are compiled and stored (lines 717-726, 611-618)
FinishYear ==
    /\ pc = "file" /\ file_idx > Len(pdf_files)
    /\ yearly_results' = Put(yearly_results, Year, comment_count_map)
    /\ meeting_stats' = Put(meeting_stats, Year, tally)
    /\ total_pdf_files' = total_pdf_files + tally.total_meetings
    /\ year_idx' = year_idx + 1
    /\ pc' = "scan"
    /\ UNCHANGED <<root_kind, yearly_folders, year_dirs, minutes_path, pdf_files, file_idx,
                   comment_count_map, tally, processing_stats, skipped_files, exit_code,
                   listings, visited, call>>

\* process_folder returns (lines 620-622); main prints the summary and ends
\* (lines 880-890).
FinishFolder ==
    /\ pc = "scan" /\ year_idx > Len(yearly_folders)
    /\ processing_stats' = [processing_stats EXCEPT !.total_files = total_pdf_files]
    /\ pc' = "done" /\ exit_code' = <<0>>
    /\ UNCHANGED <<root_kind, yearly_folders, year_idx, year_dirs, minutes_path, pdf_files,
                   file_idx, comment_count_map, tally, total_pdf_files, yearly_results,
                   meeting_stats, skipped_files, listings, visited, call>>

\* The skip reasons of process_single_pdf (lines 548, 554, 561)
SkipReason(kind) ==
    CASE kind = "no_text"     -> "Failed to extract text"
      [] kind = "no_section"  -> "No Open Forum section found"
      [] kind = "no_comments" -> "No comments or 'no comment' marker found"

\* One pass of the loop of process_single_year_folder (lines 647-655), with its
\* call of process_single_pdf (lines 538-564)
ProcessFlatFile ==
    /\ pc = "flat" /\ file_idx <= Len(pdf_files)
    /\ \E o \in {OutcomeOf[pdf_files[file_idx]]} :
          IF o.kind = "comments"
          THEN /\ comment_count_map' = Put(comment_count_map, o.date, o.count)
               /\ processing_stats' = AddProcessed(processing_stats, o.count)
               /\ UNCHANGED skipped_files
          ELSE /\ skipped_files' =
                      Append(skipped_files, <<pdf_files[file_idx].name, SkipReason(o.kind)>>)
               /\ processing_stats' = AddSkipped(processing_stats)
               /\ UNCHANGED comment_count_map
    /\ visited' = Append(visited, <<AllFiles, file_idx>>)
    /\ file_idx' = file_idx + 1
    /\ UNCHANGED <<pc, root_kind, yearly_folders, year_idx, year_dirs, minutes_path, pdf_files,
                   tally, total_pdf_files, yearly_results, meeting_stats, exit_code,
                   listings, call>>

\* process_folder returns the single bucket (line 594); main prints the summary
\* and ends (lines 880-890).
FinishFlat ==
    /\ pc = "flat" /\ file_idx > Len(pdf_files)
    /\ yearly_results' = Put(EmptyMap, AllFiles, comment_count_map)
    /\ pc' = "done" /\ exit_code' = <<0>>
    /\ UNCHANGED <<root_kind, yearly_folders, year_idx, year_dirs, minutes_path, pdf_files,
                   file_idx, comment_count_map, tally, total_pdf_files, meeting_stats,
                   processing_stats, skipped_files, listings, visited, call>>

Next ==
    \/ StartMissing \/ StartNotDir \/ StartYears \/ StartFallback
    \/ SkipYear \/ EnterYear \/ WalkFile \/ EndWalk \/ ProcessFile \/ FinishYear
    \/ FinishFolder \/ EndFlatWalk \/ ProcessFlatFile \/ FinishFlat

Spec == Init /\ [][Next]_vars

\* A run is one sequential process: it goes on while it has a step to take.
FairSpec == Spec /\ WF_vars(Next)

(***************************************************************************)
(* The text functions called on their own: the argument is drawn at the    *)
(* start, and the one step is the call.                                    *)
(***************************************************************************)

Idle == pc = "start" /\ root_kind = "dir" /\ Constructed

Returns(value) ==
    /\ ~call.done
    /\ call' = [call EXCEPT !.ret = value, !.done = TRUE]
    /\ UNCHANGED <<pc, root_kind, yearly_folders, year_idx, year_dirs, minutes_path, pdf_files,
                   file_idx, comment_count_map, tally, total_pdf_files, yearly_results,
                   meeting_stats, processing_stats, skipped_files, exit_code, listings,
                   visited>>

\* File names: an optional word, three numbers and the separator between them.
NameWords == {"", "Minutes ", "feb "}
NameFirst == {"1", "01", "13", "31", "2021"}
NameSecond == {"2", "02", "30"}
NameThird == {"21", "2021", "60", "5", "2031", "90", "15"}
NameSeps == {".", " ", ""}

Filenames ==
    {w \o a \o sep \o b \o sep \o c \o ".pdf" :
        w \in NameWords, a \in NameFirst, sep \in NameSeps, b \in NameSecond, c \in NameThird}

InitDate == Idle /\ call \in {Call("extract_date_from_filename", f) : f \in Filenames}

CallDate ==
    /\ call.fn = "extract_date_from_filename"
    /\ Returns(extract_date_from_filename(call.arg))

SpecDate == InitDate /\ [][CallDate]_vars

\* Minutes texts: what precedes the section, its header, its body, the header
\* that follows and the rest.
TextLeads == {"", "Open Forum x Motion\n", "5. Open Forum y 6.\n"}
TextHeaders == {"V. Open Forum", "5. Open Forum", "Open Forum", "v.open  forum", "Agenda"}
TextBodies == {"\n", "\nJohn spoke.\n", " adjournment "}
TextEnds == {"VI. Discussion", "6. Other", "Motion to adjourn", ""}
TextRests == {"", " VI. Adjournment"}

Texts ==
    {l \o h \o b \o e \o r :
        l \in TextLeads, h \in TextHeaders, b \in TextBodies, e \in TextEnds, r \in TextRests}

InitLocate == Idle /\ call \in {Call("extract_open_forum_section", t) : t \in Texts}

CallLocate ==
    /\ call.fn = "extract_open_forum_section"
    /\ Returns(extract_open_forum_section(call.arg))

SpecLocate == InitLocate /\ [][CallLocate]_vars

\* Spans: at most MaxParagraphs paragraphs, a blank line between them.
MaxParagraphs == 2

Paragraphs ==
    { "No public comment.",
      "None",
      "Page 3",
      "DocuSign Envelope ID: 1A-2B",
      "John asked about parking on campus.",
      "There was no discussion of the budget today.",
      "Thank you all.",
      "Mary wants the library open on Sundays.",
      "Mary said the hours are too short.\nPer Smith, the budget is fine and stays as it is." }

RECURSIVE Joined(_)
\* "\n\n".join(ps)
Joined(ps) ==
    IF ps = <<>> THEN ""
    ELSE IF Len(ps) = 1 THEN ps[1]
    ELSE ps[1] \o "\n\n" \o Joined(Tail(ps))

Spans == {Joined(ps) : ps \in UNION {[1..n -> Paragraphs] : n \in 0..MaxParagraphs}}

InitCount == Idle /\ call \in {Call("count_public_comments", t) : t \in Spans}

CallCount ==
    /\ call.fn = "count_public_comments"
    /\ Returns(count_public_comments(call.arg))

SpecCount == InitCount /\ [][CallCount]_vars

InitClassify == Idle /\ call \in {Call("has_no_comments", t) : t \in Spans}

CallClassify ==
    /\ call.fn = "has_no_comments"
    /\ Returns(has_no_comments(call.arg))

SpecClassify == InitClassify /\ [][CallClassify]_vars

\* Paragraphs for split_by_clear_boundaries: a sentence and up to two more
\* lines, which may begin with a speaker change.
SplitFirst == {"Mary said the hours are too short.", "Short one.", "  Thanks. "}
SplitMore ==
    {"", "\nPer Lee, ok.", "\nPer Smith, the budget is fine and stays as it is.",
     "\nBudget was asked by Ann.", " \nThe bus times were stated by the chair of the board.",
     "\nper diem was raised."}

SplitInputs == {a \o b \o c : a \in SplitFirst, b \in SplitMore, c \in SplitMore}

InitSplit == Idle /\ call \in {Call("split_by_clear_boundaries", p) : p \in SplitInputs}

CallSplit ==
    /\ call.fn = "split_by_clear_boundaries"
    /\ Returns(split_by_clear_boundaries(call.arg))

SpecSplit == InitSplit /\ [][CallSplit]_vars

(***************************************************************************)
(* What the run has done, read from the history variables.                 *)
(***************************************************************************)

RECURSIVE SumFn(_)
\* The sum of the values of a function to the naturals
SumFn(f) ==
    IF DOMAIN f = {} THEN 0
    ELSE LET x == CHOOSE x \in DOMAIN f : TRUE
         IN f[x] + SumFn([y \in DOMAIN f \ {x} |-> f[y]])

\* The file of a visit
FileOf(v) == listings[v[1]][v[2]]

\* The positions of a listing whose file has a positive comment count
Commented(files) == {k \in 1..Len(files) : OutcomeOf[files[k]].count > 0}

\* The comment counts of a listing, summed
CommentsIn(files) == SumFn([k \in 1..Len(files) |-> OutcomeOf[files[k]].count])

YearMode == yearly_folders # <<>>

\* The orders a listing can be enumerated in
Permuted(files) ==
    {[k \in 1..Len(files) |-> files[p[k]]] :
        p \in {q \in [1..Len(files) -> 1..Len(files)] :
                  \A i, j \in 1..Len(files) : q[i] = q[j] => i = j}}

(***************************************************************************)
(* C1.  At the end of a run over year folders, processed_files is the      *)
(* number of files with a positive comment count, total_comments is the    *)
(* sum of those counts, and every year's meetings_with_comments is the     *)
(* number of that year's files with a positive comment count.              *)
(***************************************************************************)
C1_StatsCountCommentedFiles ==
    (pc = "done" /\ YearMode) =>
        /\ processing_stats.processed_files =
               SumFn([y \in DOMAIN listings |-> Cardinality(Commented(listings[y]))])
        /\ processing_stats.total_comments =
               SumFn([y \in DOMAIN listings |-> CommentsIn(listings[y])])
        /\ DOMAIN meeting_stats = DOMAIN listings
        /\ \A y \in DOMAIN meeting_stats :
               meeting_stats[y].meetings_with_comments = Cardinality(Commented(listings[y]))

\* A finished run over one year folder holding one PDF with two comments
C1_OnePdfTwoComments ==
    /\ pc = "done" /\ YearMode
    /\ \E y \in DOMAIN listings :
          /\ DOMAIN listings = {y} /\ Len(listings[y]) = 1
          /\ OutcomeOf[listings[y][1]].count = 2
          /\ meeting_stats[y].meetings_with_comments = 1
    /\ processing_stats.processed_files = 1
    /\ processing_stats.total_comments = 2

(***************************************************************************)
(* C2.  For a root that is a folder the run always reaches done; the years *)
(* are visited in the sorted order of their names, no enumerated PDF is    *)
(* processed twice and at the end every one has been processed once, the   *)
(* files whose text could not be read included.                            *)
(***************************************************************************)
VisitsOf(y, k) == {i \in 1..Len(visited) : visited[i] = <<y, k>>}

SortedVisits ==
    \A i, j \in 1..Len(visited) :
        i < j => (visited[i][1] = visited[j][1] \/ StrLess(visited[i][1], visited[j][1]))

OnceEach ==
    \A y \in DOMAIN listings : \A k \in 1..Len(listings[y]) :
        /\ Cardinality(VisitsOf(y, k)) <= 1
        /\ pc = "done" => Cardinality(VisitsOf(y, k)) = 1

C2_RunReachesDone ==
    /\ [](SortedVisits /\ OnceEach)
    /\ (root_kind = "dir") ~> (pc = "done")

\* A finished run in which a file that could not be read came first and a file
\* of a later year was processed after it
C2_UnreadableThenLaterYear ==
    /\ pc = "done" /\ YearMode
    /\ Len(visited) = 2
    /\ visited[1][1] # visited[2][1]
    /\ OutcomeOf[FileOf(visited[1])].kind = "no_text"
    /\ OutcomeOf[FileOf(visited[2])].kind = "comments"

(***************************************************************************)
(* C3.  At the end of a run the skip log holds, for every file that was    *)
(* skipped, one entry with its name and the reason of its skip, in year    *)
(* folders and in the flat fallback alike.                                 *)
(***************************************************************************)
Skips ==
    SelectSeq(visited, LAMBDA v : OutcomeOf[FileOf(v)].kind # "comments")

C3_EverySkipLogged ==
    pc = "done" =>
        skipped_files =
            [i \in 1..Len(Skips) |->
                <<FileOf(Skips[i]).name, SkipReason(OutcomeOf[FileOf(Skips[i])].kind)>>]

(***************************************************************************)
(* C4.  At the end of a run every bucket holds one entry for each of its   *)
(* files with a positive count, and the year's statistics can be computed  *)
(* from the bucket: meetings_with_comments is the number of its entries    *)
(* and total_comments the sum of its counts.                               *)
(***************************************************************************)
C4_BucketHoldsEveryCountedFile ==
    (pc = "done" /\ YearMode) =>
        \A y \in DOMAIN yearly_results :
            /\ Cardinality(DOMAIN yearly_results[y]) = Cardinality(Commented(listings[y]))
            /\ y \in DOMAIN meeting_stats =>
                  /\ meeting_stats[y].meetings_with_comments =
                         Cardinality(DOMAIN yearly_results[y])
                  /\ meeting_stats[y].total_comments = SumFn(yearly_results[y])

(***************************************************************************)
(* C5.  The bucket a run records for a year folder is the bucket every     *)
(* other order of enumerating the same files gives.                        *)
(***************************************************************************)
C5_OrderDoesNotMatter ==
    (pc = "done" /\ YearMode) =>
        \A y \in DOMAIN yearly_results :
            \A files \in Permuted(listings[y]) :
                BucketAfter(files, 1, EmptyMap) = yearly_results[y]

(***************************************************************************)
(* C6.  The run fails, with a non-zero exit code, only for a root path     *)
(* that does not exist; for every root path that exists it does not fail.  *)
(***************************************************************************)
C6_OnlyMissingRootFails ==
    /\ pc = "failed" => root_kind = "missing"
    /\ (pc \in {"failed", "done"} /\ root_kind # "missing") => exit_code = <<0>>

(***************************************************************************)
(* C7.  count_public_comments returns 0 for every span that                *)
(* has_no_comments or is_only_admin_content holds of, and a natural number *)
(* for every other span.                                                   *)
(***************************************************************************)
Counted == call.fn = "count_public_comments" /\ call.done

C7_EmptySpanCountsZero ==
    Counted =>
        /\ call.ret \in Nat
        /\ (has_no_comments(call.arg) \/ is_only_admin_content(call.arg)) => call.ret = 0

\* A span of two paragraphs, one of them a comment, that counts 0 because it
\* holds a no-comment marker
C7_MarkedSpanCountedZero ==
    /\ Counted
    /\ call.arg = "John asked about parking on campus.\n\nNo public comment."
    /\ has_no_comments(call.arg)
    /\ ~is_only_admin_content(call.arg)
    /\ call.ret = 0

(***************************************************************************)
(* C8.  A readable file is given the reason "No Open Forum section found", *)
(* and tallied in meetings_no_open_forum, exactly when the section locator *)
(* returns None for its text: the skip log holds as many entries with that *)
(* reason as readable files without a section were processed, and a year's *)
(* meetings_no_open_forum counts its unreadable files and its readable     *)
(* files without a section.                                                *)
(***************************************************************************)
NoSectionReason == "No Open Forum section found"

Unlocated(f) == OutcomeOf[f].text # "" /\ OutcomeOf[f].section = None

C8_NoSectionOnlyForNone ==
    /\ ~YearMode =>
          Cardinality({i \in 1..Len(skipped_files) : skipped_files[i][2] = NoSectionReason})
              = Cardinality({i \in 1..Len(visited) : Unlocated(FileOf(visited[i]))})
    /\ \A y \in DOMAIN meeting_stats :
          meeting_stats[y].meetings_no_open_forum =
              Cardinality({k \in 1..Len(listings[y]) :
                              OutcomeOf[listings[y][k]].text = "" \/ Unlocated(listings[y][k])})

(***************************************************************************)
(* C9.  extract_open_forum_section returns None exactly when no pattern    *)
(* matches anywhere in the text; otherwise it returns the trimmed capture  *)
(* of the first pattern, in the order of the list, that matches somewhere, *)
(* at that pattern's leftmost match, and the capture ends at the first     *)
(* position from its start where an end marker of that pattern begins.     *)
(***************************************************************************)
Located == call.fn = "extract_open_forum_section" /\ call.done

\* Pattern k matches the text with its first character at position i
MatchesAt(k, txt, i) == FirstPath(patterns[k].pat, 1, txt, i, TRUE) # Fail

StartsOf(k, txt) == {i \in 1..(Len(txt) + 1) : MatchesAt(k, txt, i)}

Matching(txt) == {k \in 1..Len(patterns) : StartsOf(k, txt) # {}}

\* An end marker of pattern k begins at position i
EndMarkerAt(k, txt, i) ==
    ElemEnds(patterns[k].pat[patterns[k].grp + 1], txt, i, TRUE) # <<>>

\* The capture of pattern k in its leftmost match: its first position and the
\* position after its last
CaptureOf(k, txt) ==
    LET path == FirstPath(patterns[k].pat, 1, txt, Min(StartsOf(k, txt)), TRUE)
    IN <<path[patterns[k].grp - 1], path[patterns[k].grp]>>

C9_FirstPatternInPriorityOrder ==
    Located =>
        IF Matching(call.arg) = {} THEN call.ret = None
        ELSE LET k == Min(Matching(call.arg))
                 span == CaptureOf(k, call.arg)
             IN /\ call.ret # None
                /\ call.ret = Strip(SubSeq(call.arg, span[1], span[2] - 1))
                /\ EndMarkerAt(k, call.arg, span[2])
                /\ \A i \in span[1]..(span[2] - 1) : ~EndMarkerAt(k, call.arg, i)

\* The first pattern wins although the third one matches earlier in the text,
\* and the span stops at the first of two end markers
C9_EarlierMatchOfLaterPattern ==
    /\ Located
    /\ call.arg = "Open Forum x Motion\nV. Open Forum\nJohn spoke.\nVI. Discussion VI. Adjournment"
    /\ Min(Matching(call.arg)) = 1
    /\ Min(StartsOf(3, call.arg)) < Min(StartsOf(1, call.arg))
    /\ call.ret = "John spoke."

(***************************************************************************)
(* C10.  extract_date_from_filename returns, for every filename, either    *)
(* "Unknown Date" or two digits, a dot, two digits, a dot and four digits, *)
(* with the month in 1..12, the day in 1..31 and the year in 1990..2030.   *)
(***************************************************************************)
Dated == call.fn = "extract_date_from_filename" /\ call.done

AllDigits(w) == \A i \in 1..Len(w) : CharAt(w, i) \in Digits

\* MM.DD.YYYY with the month, the day and the year in their ranges
WellFormedDate(d) ==
    /\ Len(d) = 10
    /\ CharAt(d, 3) = "." /\ CharAt(d, 6) = "."
    /\ AllDigits(SubSeq(d, 1, 2)) /\ AllDigits(SubSeq(d, 4, 5)) /\ AllDigits(SubSeq(d, 7, 10))
    /\ ParseInt(SubSeq(d, 1, 2)) \in 1..12
    /\ ParseInt(SubSeq(d, 4, 5)) \in 1..31
    /\ ParseInt(SubSeq(d, 7, 10)) \in MinYear..MaxYear

C10_UnknownOrWellFormedDate ==
    Dated => (call.ret = UnknownDate \/ WellFormedDate(call.ret))

\* A date read from a file name with a two-digit year and no padding
C10_DateReadFromName ==
    /\ Dated
    /\ call.arg = "Minutes 1.2.21.pdf"
    /\ call.ret = "01.02.2021"

(***************************************************************************)
(* C11.  A step of the year loop over a year folder that has neither a     *)
(* Minutes nor a Minute subfolder moves on to the next year and changes    *)
(* neither the returned mapping, nor the per-year statistics, nor          *)
(* ProcessingStats, nor the files enumerated; a step over a year folder    *)
(* that has one of them scans Minutes when it exists and Minute otherwise. *)
(* At the end the mapping and the statistics hold the scanned years only.  *)
(***************************************************************************)
AtYear == pc = "scan" /\ year_idx <= Len(yearly_folders)

YearStep ==
    AtYear =>
        IF year_dirs' = {}
        THEN /\ pc' = "scan" /\ year_idx' = year_idx + 1
             /\ UNCHANGED <<yearly_results, meeting_stats, processing_stats, total_pdf_files,
                            skipped_files, listings, visited>>
        ELSE /\ pc' = "walk" /\ year_idx' = year_idx
             /\ minutes_path' = IF "Minutes" \in year_dirs' THEN "Minutes" ELSE "Minute"

C11_MissingMinutesSkipsYear ==
    /\ [][YearStep]_vars
    /\ []((pc = "done" /\ YearMode) =>
             /\ year_idx = Len(yearly_folders) + 1
             /\ DOMAIN yearly_results = DOMAIN listings
             /\ DOMAIN meeting_stats = DOMAIN listings)

\* A finished run over two year folders: the first had no Minutes or Minute
\* folder and left nothing behind, the second was scanned in its Minute folder
\* and had a file with comments.
C11_SkippedYearThenMinute ==
    /\ pc = "done" /\ Len(yearly_folders) = 2
    /\ DOMAIN yearly_results = {yearly_folders[2]}
    /\ DOMAIN meeting_stats = {yearly_folders[2]}
    /\ minutes_path = "Minute" /\ year_dirs = {"Minute"}
    /\ yearly_results[yearly_folders[2]] # EmptyMap
    /\ processing_stats.processed_files = 1 /\ processing_stats.total_files = 1

(***************************************************************************)
(* C12.  When process_folder has returned, the per-year statistics hold an *)
(* entry for every bucket name of the returned mapping, the bucket         *)
(* "All Files" of the flat fallback included.                              *)
(***************************************************************************)
C12_StatsForEveryBucket ==
    pc = "done" => DOMAIN yearly_results \subseteq DOMAIN meeting_stats

(***************************************************************************)
(* C13.  has_no_comments holds of a text exactly when the whole text,      *)
(* trimmed, without a final period and in lower case, is one of the        *)
(* no-comment statements; it does not hold of a longer sentence that       *)
(* contains one of them.                                                   *)
(***************************************************************************)
Classified == call.fn = "has_no_comments" /\ call.done

NoCommentStatements ==
    {"no open forum", "no comment", "no comments", "none", "n/a", "na", "not applicable",
     "no public comment", "no discussion", "no speaker", "no speakers",
     "no one spoke", "no attendees", "no participants"}

\* The text without the space around it and without its final period
Statement(txt) ==
    LET Cut(t) == IF t # "" /\ CharAt(t, Len(t)) = "." THEN Strip(SubSeq(t, 1, Len(t) - 1))
                  ELSE t
    IN Cut(Lower(Strip(txt)))

C13_WholeTextIsStatement ==
    Classified => (call.ret <=> Statement(call.arg) \in NoCommentStatements)

(***************************************************************************)
(* C14.  For a span the classifier does not mark empty, made of paragraphs *)
(* with a blank line between them, each of which is either plain (longer   *)
(* than 20 characters when trimmed, no page / continued / end line, not    *)
(* administrative, no speaker boundary inside) or dropped (20 characters   *)
(* or fewer, a page / continued / end line, or administrative),            *)
(* count_public_comments returns the number of plain paragraphs.           *)
(***************************************************************************)
PageLine(p) == MatchAtStart(page_line, Strip(p), TRUE).ok

Dropped(p) == Len(Strip(p)) <= MinParagraphLen \/ PageLine(p) \/ is_admin_paragraph(p)

Plain(p) ==
    /\ Len(Strip(p)) > MinParagraphLen /\ ~PageLine(p) /\ ~is_admin_paragraph(p)
    /\ FindIter(speaker_boundary, p, 1, FALSE) = <<>>
    /\ FindIter(per_boundary, p, 1, FALSE) = <<>>

ParagraphSeqs == UNION {[1..n -> Paragraphs] : n \in 0..MaxParagraphs}

C14_PlainParagraphsCounted ==
    (Counted /\ ~has_no_comments(call.arg) /\ ~is_only_admin_content(call.arg)) =>
        \A ps \in ParagraphSeqs :
            (Joined(ps) = call.arg /\ \A i \in 1..Len(ps) : Plain(ps[i]) \/ Dropped(ps[i])) =>
                call.ret = Cardinality({i \in 1..Len(ps) : Plain(ps[i])})

\* Two plain paragraphs with a blank line between them are counted 2
C14_TwoParagraphsCountTwo ==
    /\ Counted
    /\ call.arg = "John asked about parking on campus.\n\nMary wants the library open on Sundays."
    /\ ~has_no_comments(call.arg) /\ ~is_only_admin_content(call.arg)
    /\ Plain("John asked about parking on campus.")
    /\ Plain("Mary wants the library open on Sundays.")
    /\ call.ret = 2

(***************************************************************************)
(* C15.  Every candidate triplet of a file name whose first group has four *)
(* digits and whose third group has not is read with the first group as    *)
(* the year and the second and third as month and day; and a file name     *)
(* whose date is written YYYY.M.D, with a real month and day, gives that   *)
(* month, that day and that year.                                          *)
(***************************************************************************)
YearFirst(c) == Len(c[1]) = 4 /\ Len(c[3]) # 4

TripletsYearFirst(cs) ==
    \A k \in 1..Len(cs) :
        YearFirst(cs[k]) =>
            ReadTriplet(cs[k]) = [ok |-> TRUE, year |-> ParseInt(cs[k][1]),
                                  month |-> ParseInt(cs[k][2]), day |-> ParseInt(cs[k][3])]

C15_YearFirstTriplet ==
    Dated =>
        /\ TripletsYearFirst(Candidates(call.arg, 1))
        /\ \A w \in NameWords, a \in NameFirst, b \in NameSecond, c \in NameThird :
              ( /\ call.arg = w \o a \o "." \o b \o "." \o c \o ".pdf"
                /\ YearFirst(<<a, b, c>>)
                /\ ParseInt(a) \in MinYear..MaxYear
                /\ IsRealDate(ParseInt(a), ParseInt(b), ParseInt(c)) )
              => call.ret = FormatDate(ParseInt(b), ParseInt(c), ParseInt(a))

(***************************************************************************)
(* C16.  extract_date_from_filename returns the date of the first triplet  *)
(* that validates, the triplets taken pattern by pattern in the order of   *)
(* the list and, for one pattern, match by match from left to right; month *)
(* and day are swapped only when the month is outside 1..12 and the day    *)
(* inside; the month-name scan decides only when no triplet validates, and *)
(* "Unknown Date" is returned only when the scan finds nothing either.     *)
(***************************************************************************)
RECURSIVE InListOrder(_, _)
\* The triplets of patterns k, k + 1, ... of the list, in that order
InListOrder(filename, k) ==
    IF k > Len(date_patterns) THEN <<>>
    ELSE PatternCandidates(date_patterns[k], filename) \o InListOrder(filename, k + 1)

\* The matches of every pattern come from left to right
LeftToRight(filename) ==
    \A k \in 1..Len(date_patterns) :
        LET Increasing(ms) == \A i, j \in 1..Len(ms) : i < j => ms[i].start < ms[j].start
        IN Increasing(FindIter(date_patterns[k].pat, filename, 1, FALSE))

\* The date a triplet validates as, or None
Normalized(c) ==
    LET Date(r) ==
            LET swap == r.month \notin 1..12 /\ r.day \in 1..12
                month == IF swap THEN r.day ELSE r.month
                day == IF swap THEN r.month ELSE r.day
            IN IF /\ r.ok /\ month \in 1..12 /\ day \in 1..31
                  /\ r.year \in MinYear..MaxYear
                  /\ IsRealDate(r.year, month, day)
               THEN FormatDate(month, day, r.year)
               ELSE None
    IN Date(ReadTriplet(c))

C16_FirstValidCandidate ==
    Dated =>
        LET Decide(dates, named) ==
                LET good == {k \in 1..Len(dates) : dates[k] # None}
                IN IF dates # <<>> /\ good # {} THEN call.ret = dates[Min(good)]
                   ELSE IF named # None THEN call.ret = named
                   ELSE call.ret = UnknownDate
            Over(cs) == Decide([k \in 1..Len(cs) |-> Normalized(cs[k])],
                               MonthNameDate(call.arg))
        IN LeftToRight(call.arg) /\ Over(InListOrder(call.arg, 1))

\* The first triplet wins although the second one validates as another date
C16_FirstOfTwoDates ==
    /\ Dated
    /\ call.arg = "1.2.2021.pdf"
    /\ InListOrder(call.arg, 1)[1] = <<"1", "2", "2021">>
    /\ InListOrder(call.arg, 1)[2] = <<"1", "2", "20">>
    /\ Normalized(<<"1", "2", "20">>) = "01.02.2020"
    /\ call.ret = "01.02.2021"

(***************************************************************************)
(* C17.  For a paragraph that is not blank and has k boundaries,           *)
(* split_by_clear_boundaries returns between 1 and k + 1 units: the        *)
(* trimmed paragraph when k = 0; otherwise the trimmed pieces between the  *)
(* boundaries that are longer than 30 characters, in their order, or the   *)
(* trimmed paragraph when no piece is.                                     *)
(***************************************************************************)
Split == call.fn = "split_by_clear_boundaries" /\ call.done

Boundaries(p) == SortedSeq(SplitPoints(speaker_boundary, p) \cup SplitPoints(per_boundary, p))

\* The trimmed pieces of p between the offsets points, the ends included
Pieces(p, points) ==
    [i \in 1..(Len(points) + 1) |->
        Strip(Slice(p, IF i = 1 THEN 0 ELSE points[i - 1],
                       IF i = Len(points) + 1 THEN Len(p) ELSE points[i]))]

LongPieces(pieces) == SelectSeq(pieces, LAMBDA u : Len(u) > MinPieceLen)

C17_UnitsBetweenBoundaries ==
    (Split /\ Strip(call.arg) # "") =>
        LET Units(points, long) ==
                /\ Len(call.ret) >= 1 /\ Len(call.ret) <= Len(points) + 1
                /\ call.ret = IF points = <<>> \/ long = <<>> THEN <<Strip(call.arg)>> ELSE long
            Cut(points) == Units(points, LongPieces(Pieces(call.arg, points)))
        IN Cut(Boundaries(call.arg))

\* Two boundaries, three pieces, the middle one too short to be kept
C17_ShortPieceDropped ==
    /\ Split
    /\ call.arg = "Mary said the hours are too short.\nPer Lee, ok.\nPer Smith, the budget is fine and stays as it is."
    /\ Len(Boundaries(call.arg)) = 2
    /\ call.ret = <<"Mary said the hours are too short.",
                    "Per Smith, the budget is fine and stays as it is.">>

(***************************************************************************)
(* C18.  At the end of a run, over year folders and in the flat fallback   *)
(* alike, total_files is the number of PDF files enumerated and is         *)
(* processed_files + skipped_files.                                        *)
(***************************************************************************)
C18_EveryFileProcessedOrSkipped ==
    pc = "done" =>
        /\ processing_stats.total_files = Listed
        /\ processing_stats.total_files =
               processing_stats.processed_files + processing_stats.skipped_files

(***************************************************************************)
(* C19.  While a year folder is processed the three tallies                *)
(* meetings_with_comments, meetings_no_comments and meetings_no_open_forum *)
(* add up to the number of files processed so far, and in every stored     *)
(* YearStats to total_meetings, the number of the year's files; every file *)
(* adds 1 to exactly one of the three, a file without text to              *)
(* meetings_no_open_forum.                                                 *)
(***************************************************************************)
Tallied(t) == t.meetings_with_comments + t.meetings_no_comments + t.meetings_no_open_forum

TalliesPartition ==
    /\ pc = "file" => Tallied(tally) = file_idx - 1
    /\ \A y \in DOMAIN meeting_stats :
          /\ Tallied(meeting_stats[y]) = meeting_stats[y].total_meetings
          /\ meeting_stats[y].total_meetings = Len(listings[y])

OneTallyPerFile ==
    (pc = "file" /\ file_idx' = file_idx + 1) =>
        /\ \E field \in {"meetings_with_comments", "meetings_no_comments",
                         "meetings_no_open_forum"} :
              /\ tally'[field] = tally[field] + 1
              /\ \A other \in {"meetings_with_comments", "meetings_no_comments",
                               "meetings_no_open_forum", "total_meetings"} \ {field} :
                    tally'[other] = tally[other]
        /\ OutcomeOf[pdf_files[file_idx]].text = "" =>
              tally'.meetings_no_open_forum = tally.meetings_no_open_forum + 1

C19_TalliesPartitionMeetings == []TalliesPartition /\ [][OneTallyPerFile]_vars

\* The first of a year's two files had no text and has been tallied
C19_UnreadableTallied ==
    /\ pc = "file" /\ file_idx = 2 /\ Len(pdf_files) = 2
    /\ OutcomeOf[pdf_files[1]].text = ""
    /\ tally.meetings_no_open_forum = 1
    /\ Tallied(tally) = 1 /\ tally.total_meetings = 2

(***************************************************************************)
(* C20.  Every value other than "Unknown Date" that                        *)
(* extract_date_from_filename returns is a real calendar date: the day     *)
(* exists in that month of that year.                                      *)
(***************************************************************************)
C20_ReturnedDateIsReal ==
    (Dated /\ call.ret # UnknownDate) =>
        IsRealDate(ParseInt(SubSeq(call.ret, 7, 10)), ParseInt(SubSeq(call.ret, 1, 2)),
                   ParseInt(SubSeq(call.ret, 4, 5)))

====
